---- MODULE Spec2Model ----
(***************************************************************************)
(* Model of src/reinforce-acrobot.ipynb: the A2C agent (reset_mode,        *)
(* play_step, reinforce), the episode driver play_epis and the train loop. *)
(* Spec is play_epis called by a client, SpecAgent the agent called by a   *)
(* client, SpecTrain the train loop.                                       *)
(*                                                                         *)
(* Numbers: gamma is the rational GammaNum/GammaDen.  The discount         *)
(* accumulator is the exact rational <<numerator, denominator>>; TD        *)
(* targets are integers in units of 1/GammaDen.  Observations are opaque   *)
(* identifiers of observation vectors; the critic network is the table of  *)
(* the values it gives them, the actor network an opaque parameter value.  *)
(* An optimizer step replaces the parameters by any parameters.            *)
(***************************************************************************)
EXTENDS Integers, Sequences, FiniteSets, TLC

\* ---------------------------------------------------------------- bounds
\* most play_step calls with learning between two resets of the trajectory
MaxTrajSteps == 3
\* largest max_episode_steps passed to play_epis (0 stands for None)
MaxLimit == 2

\* ------------------------------------------------------------- constants
\* gamma = 0.99, the default of A2C.__init__
GammaNum == 99
GammaDen == 100
\* length of the environment's episode in end-to-end scenario A
ScenarioALen == 500

\* ---------------------------------------------------------------- values
\* identifiers of observation vectors
Obs == {0, 1}
\* rewards an environment hands over
Rewards == {-1, 0}
\* (reward, done) a client passes to play_step: a step that goes on, the goal
\* reached, an episode cut short
StepResults == {<<-1, FALSE>>, <<0, TRUE>>, <<-1, TRUE>>}
\* env.action_space.n, read by A2C.__init__: a stub environment with two
\* actions (Acrobot has three; the sampled action decides no branch of the code)
action_n == 2
Actions == 0 .. (action_n - 1)
\* the values the mode argument takes: None and 'train'
Modes == {"None", "train"}
\* values a critic network gives an observation
CriticVals == {1, 2}
\* values of the actor's parameters
ActorParams == {0, 1}
\* stub environments handed to play_epis
EnvKinds == {"free", "scenarioA", "scenarioB"}

One == <<1, 1>>

VARIABLES
  \* A2C object
  mode,             \* self.mode: "unset" before the first reset_mode
  traj,             \* self.traj: flat list obs, reward, done, action, ...
  has_traj,         \* self.traj exists: reset_mode('train') has assigned it
  discount,         \* self.discount
  actor_net,        \* parameters of self.actor_net
  critic_net,       \* parameters of self.critic_net, as the table obs -> V
  \* what the last call of an agent method did
  rf,               \* locals of the reinforce call it made, or NoRf
  exc,              \* exception it raised, or "none"
  last_call,        \* the method called: "reset_mode", "play_step", "reinforce";
                    \* "none" at first
  trainSteps,       \* play_step calls that learned since the last reset_mode('train')
  reinforce_calls,  \* reinforce invocations by play_step since the last reset_mode
  this_step,        \* arguments and result of the last learning play_step since
                    \* the last reset_mode, or NoStep
  prev_step,        \* the same of the learning play_step before it, or NoStep
  \* frame of play_epis
  pc, env_kind, env_t, max_episode_steps,
  observation, reward, done, episode_reward, elapsed_steps, result,
  terminal_steps,   \* play_step calls of this play_epis call that were passed done=True
  \* the training cell of the notebook
  loop,             \* "none", "train" (in the for loop), "stopped" (break), "crashed"
  episode_rewards   \* the list episode_rewards

agentVars == <<mode, traj, has_traj, discount, actor_net, critic_net, rf, exc,
               last_call, trainSteps, reinforce_calls, this_step, prev_step>>
frameVars == <<pc, env_kind, env_t, max_episode_steps, observation, reward, done,
               episode_reward, elapsed_steps, result, terminal_steps>>
loopVars == <<loop, episode_rewards>>
vars == <<agentVars, frameVars, loopVars>>

NoRf == [called |-> FALSE]
NoStep == [called |-> FALSE]
\* what play_epis handed back: nothing yet (or an exception), None, or the pair
NoResult == [kind |-> "nothing"]
ReturnedNone == [kind |-> "None"]
ReturnedPair(total, steps) ==
  [kind |-> "pair", episode_reward |-> total, elapsed_steps |-> steps]

\* ------------------------------------------------------------ A2C agent

\* reset_mode's test `self.mode=='train'`
Learns(m) == m = "train"

\* mutant: play_step learns in every mode
LearnsInStep_always(m) == TRUE

\* play_step's test `self.mode=='train'`
LearnsInStep(m) == m = "train"

\* mutant: the trajectory is never emptied
ResetTraj_never(m, t) == t

\* mutant: the trajectory is emptied whatever the new mode
ResetTraj_always(m, t) == <<>>

\* reset_mode: self.traj = [] only when the new mode is 'train'
ResetTraj(m, t) == IF Learns(m) THEN <<>> ELSE t

\* mutant: the discount accumulator is never set back to 1
ResetDiscount_keep(m, d) == d

\* reset_mode: self.discount = 1. only when the new mode is 'train'
ResetDiscount(m, d) == IF Learns(m) THEN One ELSE d

\* self.traj += [observation, reward, done, action]
Extend(t, o, r, d, a) == t \o <<o, r, d, a>>

\* mutant: `len(self.traj)>8`
ShouldReinforce_gt(t) == Len(t) > 8

\* `len(self.traj)>=8`
ShouldReinforce(t) == Len(t) >= 8

\* self.discount *= self.gamma
Decay(d) == <<d[1] * GammaNum, d[2] * GammaDen>>

\* mutant: the first eight entries, self.traj[:8]
Unpack_first8(t) ==
  [state |-> t[1], action |-> t[4], next_state |-> t[5],
   reward |-> t[6], done |-> t[7], next_action |-> t[8]]

\* mutant: reward and done are read from the older tuple of the pair
Unpack_older(t) ==
  LET n == Len(t) IN
  [state |-> t[n - 7], action |-> t[n - 4], next_state |-> t[n - 3],
   reward |-> t[n - 6], done |-> t[n - 5], next_action |-> t[n]]

\* state, _, _, action, next_state, reward, done, next_action = self.traj[-8:]
Unpack(t) ==
  LET n == Len(t) IN
  [state |-> t[n - 7], action |-> t[n - 4], next_state |-> t[n - 3],
   reward |-> t[n - 2], done |-> t[n - 1], next_action |-> t[n]]

\* Python's number for a bool in arithmetic: True is 1, False is 0
AsNumber(b) == IF b THEN 1 ELSE 0

\* mutant: the bootstrap term is not masked by done
TdTarget_no_mask(r, d, next_v) == r * GammaDen + GammaNum * next_v

\* target_tensor = reward + (1.-done)*self.gamma*next_v_tensor  (units of 1/GammaDen)
TdTarget(r, d, next_v) == r * GammaDen + (1 - AsNumber(d)) * GammaNum * next_v

\* A2C.reset_mode(mode)
reset_mode(m) ==
  /\ mode' = m
  /\ traj' = ResetTraj(m, traj)
  /\ discount' = ResetDiscount(m, discount)
  /\ trainSteps' = IF Learns(m) THEN 0 ELSE trainSteps
  /\ reinforce_calls' = 0
  /\ rf' = NoRf
  /\ exc' = "none"
  /\ last_call' = "reset_mode"
  /\ has_traj' = (has_traj \/ Learns(m))
  /\ this_step' = NoStep
  /\ prev_step' = NoStep
  /\ UNCHANGED <<actor_net, critic_net>>

\* mutant: one optimizer over the parameters of both networks
ActorStep_joint(p) ==
  {[actor |-> a, critic |-> c] : a \in ActorParams, c \in [Obs -> CriticVals]}

\* self.actor_optimizer.step(): Adam over self.actor_net.parameters(); of the
\* pair p of parameters it replaces the actor's
ActorStep(p) == {[actor |-> a, critic |-> p.critic] : a \in ActorParams}

\* self.critic_optimizer.step(): Adam over self.critic_net.parameters()
CriticStep(p) == {[actor |-> p.actor, critic |-> c] : c \in [Obs -> CriticVals]}

\* target_tensor is handed to self.critic_loss as it was computed: no detach()
\* and no torch.no_grad() cut it from the graph of self.critic_net
TargetDetached == FALSE

\* the factor with which the gradient of V(s') enters the gradient of the
\* target in critic_loss_tensor.backward() (units of 1/GammaDen):
\* d target / d V(s') = (1.-done)*gamma along the graph, nothing once detached
TargetGradFactor(d) == IF TargetDetached THEN 0 ELSE (1 - AsNumber(d)) * GammaNum

\* line 219 of reinforce fails: self.traj does not exist (AttributeError) or
\* holds fewer than the 8 values the unpacking needs (ValueError)
UnpackError(t) ==
  IF ~has_traj THEN "AttributeError" ELSE IF Len(t) < 8 THEN "ValueError" ELSE "none"

\* reinforce past its first line: the TD target, one actor optimizer step, then
\* one critic optimizer step
reinforce_update(t) ==
  LET u == Unpack(t)
      next_v == critic_net[u.next_state]
      target == TdTarget(u.reward, u.done, next_v)
      p0 == [actor |-> actor_net, critic |-> critic_net]
  IN \E p1 \in ActorStep(p0) : \E p2 \in CriticStep(p1) :
       /\ exc' = "none"
       /\ rf' = [called |-> TRUE, raised |-> FALSE,
                 state |-> u.state, action |-> u.action,
                 next_state |-> u.next_state, reward |-> u.reward,
                 done |-> u.done,
                 next_v_tensor |-> next_v, target_tensor |-> target,
                 discount |-> discount,
                 target_grad |-> TargetGradFactor(u.done),
                 steps |-> <<"actor", "critic">>,
                 actor_step_kept_critic |-> (p1.critic = p0.critic),
                 critic_step_kept_actor |-> (p2.actor = p1.actor)]
       /\ actor_net' = p2.actor
       /\ critic_net' = p2.critic

\* mutant: the optimizers step before the window is looked at
reinforce_late_check(t) ==
  IF UnpackError(t) # "none"
  THEN /\ exc' = UnpackError(t)
       /\ rf' = [called |-> TRUE, raised |-> TRUE]
       /\ actor_net' \in ActorParams
       /\ critic_net' \in [Obs -> CriticVals]
  ELSE reinforce_update(t)

\* A2C.reinforce() on the trajectory t: the unpacking of its first line raises
\* before anything is computed or changed, or the update runs
reinforce(t) ==
  IF UnpackError(t) # "none"
  THEN /\ exc' = UnpackError(t)
       /\ rf' = [called |-> TRUE, raised |-> TRUE]
       /\ UNCHANGED <<actor_net, critic_net>>
  ELSE reinforce_update(t)

\* A2C.play_step(observation, reward, done), returning the sampled action a
play_step(o, r, d, a) ==
  /\ last_call' = "play_step"
  /\ UNCHANGED <<mode, has_traj>>
  /\ IF mode = "unset"
     THEN \* self.mode was never assigned: AttributeError
          /\ exc' = "AttributeError"
          /\ rf' = NoRf
          /\ UNCHANGED <<traj, discount, actor_net, critic_net, trainSteps,
                         reinforce_calls, this_step, prev_step>>
     ELSE IF LearnsInStep(mode) /\ ~has_traj
     THEN \* self.traj += ... on an attribute that does not exist
          /\ exc' = "AttributeError"
          /\ rf' = NoRf
          /\ UNCHANGED <<traj, discount, actor_net, critic_net, trainSteps,
                         reinforce_calls, this_step, prev_step>>
     ELSE IF LearnsInStep(mode)
     THEN LET t == Extend(traj, o, r, d, a) IN
          /\ traj' = t
          /\ trainSteps' = trainSteps + 1
          /\ prev_step' = this_step
          /\ this_step' = [called |-> TRUE, observation |-> o, reward |-> r,
                           done |-> d, action |-> a]
          /\ IF ShouldReinforce(t)
             THEN reinforce(t) /\ reinforce_calls' = reinforce_calls + 1
             ELSE /\ exc' = "none"
                  /\ rf' = NoRf
                  /\ UNCHANGED <<actor_net, critic_net, reinforce_calls>>
          /\ discount' = IF exc' = "none" THEN Decay(discount) ELSE discount
     ELSE /\ exc' = "none"
          /\ rf' = NoRf
          /\ UNCHANGED <<traj, discount, actor_net, critic_net, trainSteps,
                         reinforce_calls, this_step, prev_step>>

\* `reward, done = 0., False`: what play_epis passes to the first play_step of
\* an episode, before any env.step has produced a reward
Placeholder == <<0, FALSE>>

\* what a client passes as (reward, done): the placeholder on the first
\* play_step since reset_mode, the result of an env.step afterwards
StepInputs == IF this_step.called THEN StepResults ELSE {Placeholder}

\* room left for one more learning step (bounds the trajectory)
Room == Len(traj) < 4 * MaxTrajSteps \/ ~LearnsInStep(mode)

\* a client calls agent.reset_mode(m)
ResetModeCall ==
  /\ pc # "loop"
  /\ \E m \in Modes : reset_mode(m)
  /\ UNCHANGED <<frameVars, loopVars>>

\* a client calls agent.play_step(o, r, d)
PlayStepCall ==
  /\ pc # "loop"
  /\ Room
  /\ \E o \in Obs, rd \in StepInputs, a \in Actions : play_step(o, rd[1], rd[2], a)
  /\ UNCHANGED <<frameVars, loopVars>>

\* a client calls agent.reinforce() itself, while the window holds fewer than
\* two transitions (with two or more the call does what play_step's call does)
ReinforceCall ==
  /\ pc # "loop"
  /\ Len(traj) < 8
  /\ reinforce(traj)
  /\ last_call' = "reinforce"
  /\ UNCHANGED <<mode, traj, has_traj, discount, trainSteps, reinforce_calls,
                 this_step, prev_step>>
  /\ UNCHANGED <<frameVars, loopVars>>

Init ==
  /\ mode = "unset"
  /\ traj = <<>>
  /\ has_traj = FALSE
  /\ discount = One
  /\ actor_net \in ActorParams
  /\ critic_net \in [Obs -> CriticVals]
  /\ rf = NoRf
  /\ exc = "none"
  /\ last_call = "none"
  /\ trainSteps = 0
  /\ reinforce_calls = 0
  /\ this_step = NoStep
  /\ prev_step = NoStep
  /\ pc = "idle"
  /\ env_kind = "free"
  /\ env_t = 0
  /\ max_episode_steps = 0
  /\ observation = 0
  /\ reward = 0
  /\ done = FALSE
  /\ episode_reward = 0
  /\ elapsed_steps = 0
  /\ result = NoResult
  /\ terminal_steps = 0
  /\ loop = "none"
  /\ episode_rewards = <<>>

NextAgent == ResetModeCall \/ PlayStepCall \/ ReinforceCall

SpecAgent == Init /\ [][NextAgent]_vars

\* ---------------------------------------------------------- environment

\* env.reset(): any initial observation
EnvReset == Obs

\* env.step(action), the k-th step since reset, of the stub environment kind:
\*   free       any observation, reward and done flag
\*   scenarioA  reward -1 and done=False up to step ScenarioALen, where it
\*              gives reward 0 and done=True
\*   scenarioB  done=True with reward 0 at once
EnvStep(kind, k) ==
  CASE kind = "scenarioA" ->
         IF k < ScenarioALen
         THEN {[obs |-> o, reward |-> -1, done |-> FALSE] : o \in Obs}
         ELSE {[obs |-> o, reward |-> 0, done |-> TRUE] : o \in Obs}
    [] kind = "scenarioB" ->
         {[obs |-> o, reward |-> 0, done |-> TRUE] : o \in Obs}
    [] OTHER ->
         {[obs |-> o, reward |-> r, done |-> d] : o \in Obs, r \in Rewards, d \in BOOLEAN}

\* ------------------------------------------------------------- play_epis

\* class A2C defines __init__, reset_mode, play_step, build_net and reinforce:
\* it has no close method, so agent.close() raises AttributeError
AgentHasClose == FALSE

\* `if max_episode_steps and elapsed_steps>=max_episode_steps`
LimitReached(limit, steps) == limit # 0 /\ steps >= limit

\* play_epis(env, agent, max_episode_steps=limit, mode=m) up to the loop:
\* env.reset(), the placeholder reward and done, agent.reset_mode, the two
\* accumulators
play_epis_enter(e, m, limit, o) ==
  /\ env_kind' = e
  /\ env_t' = 0
  /\ max_episode_steps' = limit
  /\ observation' = o
  /\ reward' = Placeholder[1]
  /\ done' = Placeholder[2]
  /\ reset_mode(m)
  /\ episode_reward' = 0
  /\ elapsed_steps' = 0
  /\ result' = NoResult
  /\ terminal_steps' = 0
  /\ pc' = "loop"

\* a client calls play_epis(env, agent, max_episode_steps=limit, mode=m)
PlayEpisStart ==
  /\ pc # "loop"
  /\ \E e \in EnvKinds, m \in Modes, limit \in 0 .. MaxLimit, o \in EnvReset :
       play_epis_enter(e, m, limit, o)
  /\ UNCHANGED loopVars

\* one pass through the body of `while True`: play_step, the done test,
\* env.step, the accumulators, the step limit, agent.close() and the return
\* statement, which both stand inside the loop body.  A break leaves the
\* function at its end, where it returns None.
play_epis_body ==
  /\ pc = "loop"
  /\ Room
  /\ \E a \in Actions :
       /\ play_step(observation, reward, done, a)
       /\ terminal_steps' = terminal_steps + AsNumber(done)
       /\ IF exc' # "none"
          THEN /\ pc' = "raised"
               /\ UNCHANGED <<env_kind, env_t, max_episode_steps, observation, reward,
                              done, episode_reward, elapsed_steps, result>>
          ELSE IF done
          THEN /\ pc' = "returned"
               /\ result' = ReturnedNone
               /\ UNCHANGED <<env_kind, env_t, max_episode_steps, observation, reward,
                              done, episode_reward, elapsed_steps>>
          ELSE \E out \in EnvStep(env_kind, env_t + 1) :
                 /\ env_t' = env_t + 1
                 /\ observation' = out.obs
                 /\ reward' = out.reward
                 /\ done' = out.done
                 /\ episode_reward' = episode_reward + out.reward
                 /\ elapsed_steps' = elapsed_steps + 1
                 /\ IF LimitReached(max_episode_steps, elapsed_steps')
                    THEN pc' = "returned" /\ result' = ReturnedNone
                    ELSE IF AgentHasClose
                    THEN pc' = "returned" /\ result' = ReturnedPair(episode_reward', elapsed_steps')
                    ELSE pc' = "raised" /\ result' = NoResult
                 /\ UNCHANGED <<env_kind, max_episode_steps>>

\* the loop body of a play_epis call made by a client
PlayEpisIter == play_epis_body /\ UNCHANGED loopVars

Next == PlayEpisStart \/ PlayEpisIter

Spec == Init /\ [][Next]_vars

\* ------------------------------------------------------------ train loop

\* `np.mean(episode_rewards[-10:])>-120`: the threshold and the window
RewardThreshold == -120
MeanWindow == 10

\* rs[-n:]
LastN(rs, n) == IF Len(rs) <= n THEN rs ELSE SubSeq(rs, Len(rs) - n + 1, Len(rs))

\* sum(rs)
RECURSIVE Sum(_)
Sum(rs) == IF rs = <<>> THEN 0 ELSE Head(rs) + Sum(Tail(rs))

\* np.mean(rs[-10:]) > -120, with the division by the length multiplied out
MeanExceeds(rs) ==
  LET w == LastN(rs, MeanWindow) IN Sum(w) > RewardThreshold * Len(w)

\* agent = A2C(env); episode_rewards = []; the loop is entered.  The env and
\* its _max_episode_steps stay the same for the whole loop.
TrainStart ==
  /\ loop = "none"
  /\ pc = "idle"
  /\ loop' = "train"
  /\ episode_rewards' = <<>>
  /\ env_kind' \in EnvKinds
  /\ max_episode_steps' \in 0 .. MaxLimit
  /\ UNCHANGED <<agentVars, pc, env_t, observation, reward, done, episode_reward,
                 elapsed_steps, result, terminal_steps>>

\* the loop calls play_epis(env, agent,
\* max_episode_steps=env._max_episode_steps, mode='train')
TrainEpisode ==
  /\ loop = "train"
  /\ pc # "loop"
  /\ \E o \in EnvReset : play_epis_enter(env_kind, "train", max_episode_steps, o)
  /\ UNCHANGED loopVars

\* the body of play_epis inside the loop and, once play_epis has ended, the
\* rest of the loop body: an exception of play_epis leaves the loop, a None
\* result cannot be unpacked into the pair (TypeError), a pair is appended
\* and the mean of the last ten rewards decides whether the loop goes on
TrainIter ==
  /\ loop = "train"
  /\ play_epis_body
  /\ IF pc' = "loop"
     THEN UNCHANGED loopVars
     ELSE IF pc' = "raised" \/ result'.kind # "pair"
     THEN loop' = "crashed" /\ UNCHANGED episode_rewards
     ELSE /\ episode_rewards' = Append(episode_rewards, result'.episode_reward)
          /\ loop' = IF MeanExceeds(episode_rewards') THEN "stopped" ELSE "train"

NextTrain == TrainStart \/ TrainEpisode \/ TrainIter

SpecTrain == Init /\ [][NextTrain]_vars

\* ----------------------------------------------------------------- claims

\* play_epis has ended: it returned or an exception left it
Finished == pc \in {"returned", "raised"}

\* C1: play_epis ends an episode only after the environment reported done or
\* the step count reached max_episode_steps, and then returns the pair
\* (sum of the rewards, number of env.step calls).
C1_EndsOnlyOnDoneOrLimit ==
  Finished =>
    /\ done \/ LimitReached(max_episode_steps, elapsed_steps)
    /\ result = ReturnedPair(episode_reward, elapsed_steps)

\* C2: against the scenario-A environment play_epis in training mode returns
\* total reward -(ScenarioALen - 1) and ScenarioALen steps, and nothing raises.
C2_ScenarioA ==
  (Finished /\ env_kind = "scenarioA" /\ mode = "train" /\ max_episode_steps = 0) =>
    /\ pc = "returned"
    /\ exc = "none"
    /\ result = ReturnedPair(-(ScenarioALen - 1), ScenarioALen)

\* C3: with max_episode_steps = N >= 1 and an environment that reports no done
\* in its first N steps, play_epis stops after exactly N env.step calls and
\* returns the cumulative reward of those steps and the step count N.
C3_TruncatedAfterLimit ==
  (Finished /\ env_kind = "scenarioA" /\ max_episode_steps >= 1
     /\ max_episode_steps < ScenarioALen) =>
    /\ env_t = max_episode_steps
    /\ result = ReturnedPair(episode_reward, max_episode_steps)

RECURSIVE Pow(_, _)
Pow(b, n) == IF n = 0 THEN 1 ELSE b * Pow(b, n - 1)

\* the reinforce call of the last agent call ran to its end
Updated == rf.called /\ ~rf.raised

\* C5: the discount accumulator is 1 right after reset_mode('train') and
\* gamma^t after t play_step calls in training mode of the same episode,
\* whatever the agent did before that reset_mode('train').
C5_DiscountIsGammaPower ==
  mode = "train" =>
    discount = <<Pow(GammaNum, trainSteps), Pow(GammaDen, trainSteps)>>

\* two play_step calls into a training episode
C5_Witness ==
  /\ mode = "train" /\ last_call = "play_step" /\ trainSteps = 2
  /\ discount = <<GammaNum * GammaNum, GammaDen * GammaDen>>

\* C6: a play_step call invokes reinforce exactly when the agent is in
\* training mode and the window, after the append, holds at least two full
\* transitions; that is, on every play_step of a training episode but the
\* first, and never in idle mode.
C6_UpdateIffTwoTransitions ==
  last_call = "play_step" =>
    /\ rf.called <=> (mode = "train" /\ Len(traj) >= 8)
    /\ rf.called <=> (mode = "train" /\ trainSteps >= 2)

\* the third play_step of a training episode invoked reinforce
C6_Witness ==
  /\ last_call = "play_step" /\ mode = "train" /\ trainSteps = 3 /\ rf.called

\* C7, as claimed: in a training episode the window never holds more than two
\* transitions (8 entries).
C7_WindowAtMostTwo ==
  mode = "train" => Len(traj) <= 8

\* C7, amended: the window is never trimmed; after t play_step calls of a
\* training episode it holds all t tuples (4t entries), and an update reads
\* only the two most recent tuples, the last 8 entries.
C7_WindowKeepsAllReadsLastTwo ==
  /\ mode = "train" => Len(traj) = 4 * trainSteps
  /\ Updated =>
       LET n == Len(traj) IN
       /\ rf.state = traj[n - 7]
       /\ rf.action = traj[n - 4]
       /\ rf.next_state = traj[n - 3]
       /\ rf.reward = traj[n - 2]
       /\ rf.done = traj[n - 1]

\* an update with three tuples in the window
C7_Witness ==
  /\ mode = "train" /\ Updated /\ Len(traj) = 12

\* C8: no step that leaves the agent in idle mode invokes reinforce or changes
\* the actor's or the critic's parameters, also after training episodes.
C8_EvalLeavesNetworks ==
  [][mode' = "None" =>
       /\ actor_net' = actor_net
       /\ critic_net' = critic_net
       /\ ~rf'.called
       /\ reinforce_calls' = 0]_vars

\* an idle episode of play_epis has ended, after a training episode
C8_Witness ==
  /\ Finished /\ mode = "None" /\ last_call = "play_step"
  /\ elapsed_steps = 1 /\ Len(traj) = 4

\* C9, as claimed: in idle mode the window holds no transitions.
C9_IdleHoldsNoHistory ==
  mode = "None" => Len(traj) = 0

\* C9, amended: reset_mode with a non-training mode and play_step in idle mode
\* leave the window as it was: empty before the first training episode, the
\* last training episode's entries after it.
C9_IdleLeavesWindow ==
  [][mode' = "None" => traj' = traj]_vars

\* an idle play_step after a training episode of two steps
C9_Witness ==
  /\ mode = "None" /\ last_call = "play_step" /\ Len(traj) = 8

\* C10: the TD target of an update is r + gamma V(s') when done is false and r
\* when done is true (in units of 1/GammaDen), V being the critic at the call
\* and (s', r, done) the arguments of the play_step that made the update.
C10_TdTarget ==
  [][(rf'.called /\ ~rf'.raised) =>
       LET n == Len(traj')
           s2 == traj'[n - 3]
           r == traj'[n - 2]
           d == traj'[n - 1]
       IN rf'.target_tensor =
            IF d THEN r * GammaDen ELSE r * GammaDen + GammaNum * critic_net[s2]]_vars

\* an update on a terminal transition with reward -1: the target is the reward
C10_Witness ==
  /\ Updated /\ rf.done /\ rf.reward = -1 /\ rf.target_tensor = -GammaDen

\* C11: reinforce invoked while the window holds fewer than two full
\* transitions (0 to 7 entries) ends in an error, and neither the actor's nor
\* the critic's parameters nor the window are changed by the call.
C11_MalformedWindowFailsFast ==
  [][(last_call' = "reinforce" /\ Len(traj) < 8) =>
       /\ exc' \in {"AttributeError", "ValueError"}
       /\ rf'.called /\ rf'.raised
       /\ actor_net' = actor_net
       /\ critic_net' = critic_net
       /\ traj' = traj]_vars

\* reinforce was called with one transition in the window
C11_Witness ==
  /\ last_call = "reinforce" /\ exc = "ValueError"
  /\ mode = "train" /\ Len(traj) = 4

\* the training loop has ended
TrainEnded == loop \in {"stopped", "crashed"}

\* C12: the training loop ends only by its test: every episode it ran was
\* recorded, and at its end the mean of the last 10 recorded episode rewards
\* exceeds the threshold.
C12_StopsOnlyAboveThreshold ==
  TrainEnded =>
    /\ loop = "stopped"
    /\ Len(episode_rewards) >= 1
    /\ MeanExceeds(episode_rewards)

\* C13: when a training episode of play_epis has ended, the number of
\* reinforce invocations in it equals the number of env.step calls.
C13_EveryTransitionUpdates ==
  (Finished /\ mode = "train") => reinforce_calls = env_t

\* C14: the accumulator value an update multiplies into the actor loss is
\* gamma^t, t being the 0-based step of the episode at which the consumed
\* action was selected (the play_step before the one that makes the update).
C14_ActorWeightIsGammaT ==
  Updated =>
    rf.discount = <<Pow(GammaNum, trainSteps - 2), Pow(GammaDen, trainSteps - 2)>>

\* C15: at every update, (s, a) are the observation passed to and the action
\* returned by the preceding play_step since the last reset_mode, and
\* (s', r, done) are the arguments of the play_step that makes the update; the
\* preceding play_step exists, so no update reaches across a reset_mode.
C15_ConsecutiveStepsOfOneEpisode ==
  Updated =>
    /\ prev_step.called
    /\ this_step.called
    /\ rf.state = prev_step.observation
    /\ rf.action = prev_step.action
    /\ rf.next_state = this_step.observation
    /\ rf.reward = this_step.reward
    /\ rf.done = this_step.done

\* the first update of an episode, on two steps that differ in observation
\* and action
C15_Witness ==
  /\ Updated /\ trainSteps = 2 /\ Len(traj) = 8
  /\ prev_step.called /\ prev_step.observation # this_step.observation
  /\ prev_step.action # this_step.action

\* C16: when play_epis has ended after the environment reported done=True,
\* play_step was called exactly once with done=True in that call.
C16_OneTerminalPlayStep ==
  (Finished /\ done) => terminal_steps = 1

\* C17: an update makes one actor optimizer step, then one critic optimizer
\* step; the actor step leaves the critic's parameters as they were and the
\* critic step leaves the actor's.
C17_IndependentSteps ==
  Updated =>
    /\ rf.steps = <<"actor", "critic">>
    /\ rf.actor_step_kept_critic
    /\ rf.critic_step_kept_actor

\* an update has made its two optimizer steps
C17_Witness ==
  /\ Updated /\ Len(rf.steps) = 2 /\ last_call = "play_step" /\ mode = "train"

\* C18: the gradient of the critic loss has no contribution through V(s'):
\* the target enters the loss as a fixed value.
C18_TargetIsFixed ==
  Updated => rf.target_grad = 0

\* C19: an update reads reward and done from the arguments of the play_step
\* that makes it, which is never the first play_step since reset_mode (the one
\* that receives the placeholder) and whose arguments are an env.step result.
C19_PlaceholderNeverRead ==
  Updated =>
    /\ trainSteps >= 2
    /\ <<rf.reward, rf.done>> = <<this_step.reward, this_step.done>>
    /\ <<rf.reward, rf.done>> \in StepResults

\* the first update of an episode: the placeholder is in the window it reads
\* from, and the reward read is another
C19_Witness ==
  /\ Updated /\ Len(traj) = 8
  /\ <<traj[2], traj[3]>> = Placeholder
  /\ rf.reward # Placeholder[1]

====
